---- MODULE Spec2Model ----
(***************************************************************************)
(* Conway's Game of Life (src/src/game_of_life.c): the grid, the neighbour *)
(* count, the two-phase step, the click handler, the two initializers, the *)
(* simulation loop, and main with the configuration file, the allocation   *)
(* of the grid and the SDL resources, as state machines over the context's *)
(* fields.                                                                 *)
(***************************************************************************)
EXTENDS Integers, Sequences, FiniteSets, TLC

VARIABLES
    rows,        \* ctx->rows
    cols,        \* ctx->cols
    grid,        \* ctx->grid, a function on (0..rows-1) \X (0..cols-1)
    pc,          \* position of the control thread
    mi,          \* simulate_step: index i of the mark loop
    mj,          \* simulate_step: index j of the mark loop
    pre,         \* history: the grid when the step (or click) under way began
    reads,       \* history: the last count_neighbors call, its cell and its reads
    visited,     \* permuted mark phase: the cells already visited
    permuted,    \* permuted mark phase: a cell was visited out of row-major order
    config,      \* ctx->config: steps, seed, config_type
    running,     \* run_simulation: running
    generation,  \* run_simulation: generation
    quit,        \* history: the first SDL_QUIT drained, and the state it saw
    since_quit,  \* history: what the loop did after that SDL_QUIT
    reset_seen,  \* history: a reset key was drained
    commits,     \* history: simulate_step calls completed since the start or the last reset
    last_reset,  \* history: the grid is as a reset key left it, and whether the key changed it
    click,       \* history: the arguments of the last handle_mouse_click
    runs,        \* history: the grids left by the executions of the random initializer
    file,        \* the configuration file, a sequence of characters
    warned,      \* parse_manual_config wrote its warning to stderr
    origin,      \* history: the grid before the first of a series of simulate_step calls
    argc,        \* main: argc
    given,       \* history: what the configuration file was written to say
    faults,      \* history: the library calls that failed (fopen, calloc, SDL)
    ptrs,        \* ctx.grid, ctx.window, ctx.renderer: whether each is non-null
    ledger,      \* history: per resource, how often it was acquired and released
    result,      \* main: result
    exit_code,   \* the value main returned, NotExited before
    errors,      \* history: the error codes the setup operations returned
    entered      \* history: run_simulation was called

stepVars == <<mi, mj, reads>>

permVars == <<visited, permuted>>

loopVars ==
    <<config, running, generation, quit, since_quit, reset_seen, commits, last_reset>>

fileVars == <<file, warned>>

mainVars == <<argc, given, faults, ptrs, ledger, result, exit_code, errors, entered>>

vars ==
    <<rows, cols, grid, pc, pre, stepVars, permVars, loopVars, click, runs, fileVars,
      origin, mainVars>>

(* ------------------------------ bounds -------------------------------- *)

\* Largest number of cells of a grid of the step engine's specifications.
MaxCells == 9

\* Largest number of cells of a grid whose mark phase is permuted.
MaxPermCells == 6

(* ------------------------- program constants -------------------------- *)

CELL_DEAD == 0

CELL_ALIVE == 1

CELL_DYING == -1

CELL_BIRTH == -2

NEIGHBORS_TO_BIRTH == 3

MIN_NEIGHBORS_TO_SURVIVE == 2

MAX_NEIGHBORS_TO_SURVIVE == 3

cell_state_t == {CELL_DEAD, CELL_ALIVE, CELL_DYING, CELL_BIRTH}

RestStates == {CELL_DEAD, CELL_ALIVE}

(* ------------------------------- grid --------------------------------- *)

\* The loop's variables where no simulation loop runs.
NoConfig == [steps |-> 0, seed |-> 0, config_type |-> "none"]

NoQuit == [seen |-> FALSE]

NoClick == [x |-> 0, y |-> 0, done |-> FALSE]

NoReads == [cell |-> <<0, 0>>, at |-> <<>>]

NoReset == [fresh |-> FALSE, changed |-> FALSE]

\* main's variables where main is not followed: no call has failed, nothing
\* was acquired, main has not returned.
NotExited == -1

NoGiven == [nrows |-> -1, ncols |-> -1, mode |-> "", steps |-> -1, seed |-> -1,
            pattern |-> <<>>, section |-> FALSE]

NoFaults == [fopen |-> <<>>, calloc |-> -1, sdl |-> "none"]

NoPtrs == [grid |-> FALSE, window |-> FALSE, renderer |-> FALSE]

Unused == [acq |-> 0, rel |-> 0]

NoLedger ==
    [array |-> Unused, row |-> <<>>, sdl |-> Unused, window |-> Unused,
     renderer |-> Unused]

NoMain ==
    /\ argc = 2
    /\ given = NoGiven
    /\ faults = NoFaults
    /\ ptrs = NoPtrs
    /\ ledger = NoLedger
    /\ result = 0
    /\ exit_code = NotExited
    /\ errors = <<>>
    /\ entered = FALSE

\* since_quit once the loop has done "what": recorded after an SDL_QUIT only.
AfterQuit(what) == IF quit.seen THEN since_quit \cup {what} ELSE since_quit

Positions(R, C) == (0 .. R - 1) \X (0 .. C - 1)

\* The dimensions of the grids of at most n cells.
Dims(n) == {d \in (1 .. n) \X (1 .. n) : d[1] * d[2] <= n}

\* gol_context_t, as far as the grid goes.
Ctx(R, C, g) == [rows |-> R, cols |-> C, grid |-> g]

ctx == Ctx(rows, cols, grid)

\* ctx->grid[r][c]. The code reads a cell only after is_valid_position; a read
\* outside the grid (undefined behaviour in C) is recorded in "reads" and its
\* value is not counted.
grid_at(c, r, k) ==
    IF <<r, k>> \in DOMAIN c.grid THEN c.grid[<<r, k>>] ELSE CELL_DEAD

\* is_valid_position with the upper bounds only.
is_valid_position_upper_only(c, row, col) ==
    row < c.rows /\ col < c.cols

is_valid_position(c, row, col) ==
    row >= 0 /\ row < c.rows /\ col >= 0 /\ col < c.cols

\* The (dr, dc) offsets in the order of the two nested loops, (0,0) skipped.
neighbor_offsets ==
    << <<-1, -1>>, <<-1, 0>>, <<-1, 1>>,
       << 0, -1>>,            << 0, 1>>,
       << 1, -1>>, << 1, 0>>, << 1, 1>> >>

\* count_neighbors without the test for DYING: a neighbour counts only while ALIVE.
count_neighbors_alive_only(c, row, col) ==
    Cardinality({p \in Positions(c.rows, c.cols) :
                    /\ p # <<row, col>>
                    /\ p[1] - row \in -1 .. 1
                    /\ p[2] - col \in -1 .. 1
                    /\ c.grid[p] = CELL_ALIVE})

\* The positions (nr, nc) whose cell count_neighbors(ctx, row, col) reads at
\* line 374, in the order of the loops: the offsets is_valid_position lets pass.
neighbor_reads(c, row, col) ==
    LET at(n) == <<row + neighbor_offsets[n][1], col + neighbor_offsets[n][2]>>
        all == [n \in 1 .. Len(neighbor_offsets) |-> at(n)]
        ok(p) == is_valid_position(c, p[1], p[2])
    IN  SelectSeq(all, ok)

RECURSIVE count_states(_, _, _)
\* The count++ of count_neighbors over the reads from the n-th on.
count_states(c, rd, n) ==
    IF n > Len(rd) THEN 0
    ELSE (IF grid_at(c, rd[n][1], rd[n][2]) \in {CELL_ALIVE, CELL_DYING} THEN 1 ELSE 0)
         + count_states(c, rd, n + 1)

\* count_neighbors with the test "is not DEAD": a neighbour marked BIRTH counts too.
count_neighbors_not_dead(c, row, col) ==
    Cardinality({p \in Positions(c.rows, c.cols) :
                    /\ p # <<row, col>>
                    /\ p[1] - row \in -1 .. 1
                    /\ p[2] - col \in -1 .. 1
                    /\ c.grid[p] # CELL_DEAD})

count_neighbors(c, row, col) == count_states(c, neighbor_reads(c, row, col), 1)

(* --------------------------- simulate_step ---------------------------- *)

\* mark_cell without the overpopulation test: a live cell dies of too few
\* neighbours only.
mark_cell_no_overpopulation(c, i, j) ==
    LET neighbors == count_neighbors(c, i, j)
        current == c.grid[<<i, j>>]
    IN  IF current = CELL_ALIVE
        THEN IF neighbors < MIN_NEIGHBORS_TO_SURVIVE THEN CELL_DYING ELSE current
        ELSE IF current = CELL_DEAD
        THEN IF neighbors = NEIGHBORS_TO_BIRTH THEN CELL_BIRTH ELSE current
        ELSE current

\* mark_cell with >= in the overpopulation test: a live cell with
\* MAX_NEIGHBORS_TO_SURVIVE neighbours dies.
mark_cell_dies_at_max(c, i, j) ==
    LET neighbors == count_neighbors(c, i, j)
        current == c.grid[<<i, j>>]
    IN  IF current = CELL_ALIVE
        THEN IF \/ neighbors < MIN_NEIGHBORS_TO_SURVIVE
                \/ neighbors >= MAX_NEIGHBORS_TO_SURVIVE
             THEN CELL_DYING ELSE current
        ELSE IF current = CELL_DEAD
        THEN IF neighbors = NEIGHBORS_TO_BIRTH THEN CELL_BIRTH ELSE current
        ELSE current

\* The body of the mark loop for cell (i, j): the cell's marked state.
mark_cell(c, i, j) ==
    LET neighbors == count_neighbors(c, i, j)
        current == c.grid[<<i, j>>]
    IN  IF current = CELL_ALIVE
        THEN IF \/ neighbors < MIN_NEIGHBORS_TO_SURVIVE
                \/ neighbors > MAX_NEIGHBORS_TO_SURVIVE
             THEN CELL_DYING ELSE current
        ELSE IF current = CELL_DEAD
        THEN IF neighbors = NEIGHBORS_TO_BIRTH THEN CELL_BIRTH ELSE current
        ELSE current

\* commit_cell without the BIRTH case.
commit_cell_dying_only(s) == IF s = CELL_DYING THEN CELL_DEAD ELSE s

\* The body of the commit loop for one cell.
commit_cell(s) ==
    IF s = CELL_DYING THEN CELL_DEAD
    ELSE IF s = CELL_BIRTH THEN CELL_ALIVE
    ELSE s

commit_grid(g) == [p \in DOMAIN g |-> commit_cell(g[p])]

RECURSIVE mark_from(_, _, _, _)
\* The mark loops from cell number k (row-major, k = i * cols + j) on.
mark_from(R, C, g, k) ==
    IF k >= R * C THEN g
    ELSE LET i == k \div C
             j == k % C
         IN  mark_from(R, C, [g EXCEPT ![<<i, j>>] = mark_cell(Ctx(R, C, g), i, j)],
                       k + 1)

\* simulate_step as a whole: the grid it leaves.
simulate_step(c) == commit_grid(mark_from(c.rows, c.cols, c.grid, 0))

\* One iteration of the mark loops, at (mi, mj).
MarkCell ==
    /\ pc = "mark"
    /\ mi < rows
    /\ grid' = [grid EXCEPT ![<<mi, mj>>] = mark_cell(ctx, mi, mj)]
    /\ reads' = [cell |-> <<mi, mj>>, at |-> neighbor_reads(ctx, mi, mj)]
    /\ IF mj + 1 < cols
       THEN mi' = mi /\ mj' = mj + 1 /\ pc' = pc
       ELSE /\ mj' = 0
            /\ mi' = mi + 1
            /\ pc' = IF mi + 1 < rows THEN pc ELSE "commit"
    /\ UNCHANGED <<rows, cols, pre, permVars, loopVars, click, runs, fileVars, origin, mainVars>>

\* The commit loops, then the return of simulate_step.
Commit ==
    /\ pc = "commit"
    /\ grid' = commit_grid(grid)
    /\ pc' = "stepped"
    /\ since_quit' = AfterQuit("step")
    /\ commits' = commits + 1
    /\ UNCHANGED <<rows, cols, pre, stepVars, permVars, click, runs, fileVars, origin, mainVars>>
    /\ UNCHANGED <<config, running, generation, quit, reset_seen, last_reset>>

(* ------------- the step engine on every at-rest grid ------------------ *)

InitStep ==
    /\ \E d \in Dims(MaxCells) :
          /\ rows = d[1]
          /\ cols = d[2]
          /\ grid \in [Positions(d[1], d[2]) -> RestStates]
    /\ pre = grid
    /\ pc = "mark"
    /\ mi = 0
    /\ mj = 0
    /\ reads = NoReads
    /\ visited = {}
    /\ permuted = FALSE
    /\ config = NoConfig
    /\ running = FALSE
    /\ generation = 0
    /\ quit = NoQuit
    /\ since_quit = {}
    /\ reset_seen = FALSE
    /\ commits = 0
    /\ last_reset = NoReset
    /\ origin = <<>>
    /\ NoMain
    /\ click = NoClick
    /\ runs = <<>>
    /\ file = <<>>
    /\ warned = FALSE

NextStep == MarkCell \/ Commit

SpecStep == InitStep /\ [][NextStep]_vars

\* The control thread is in the body of simulate_step.
InsideStep == pc \in {"mark", "commit"}

\* The Moore neighbours of p on an R x C grid: the positions of the grid at
\* distance one, positions off the grid left out.
Moore(R, C, p) ==
    {q \in Positions(R, C) :
        /\ q # p
        /\ q[1] - p[1] \in {-1, 0, 1}
        /\ q[2] - p[2] \in {-1, 0, 1}}

\* The number of ALIVE Moore neighbours of p in grid g.
AliveAround(R, C, g, p) == Cardinality({q \in Moore(R, C, p) : g[q] = CELL_ALIVE})

\* Conway's rule for p, read off the pre-step grid g.
LivesNext(R, C, g, p) ==
    \/ g[p] = CELL_DEAD /\ AliveAround(R, C, g, p) = 3
    \/ g[p] = CELL_ALIVE /\ AliveAround(R, C, g, p) \in {2, 3}

\* C1: after one simulate_step on a grid of Dead and Alive cells, a cell is
\* Alive exactly when, in the pre-step grid, it was Dead with exactly 3 Alive
\* Moore neighbours or Alive with 2 or 3; every other cell is Dead.
C1_StepIsConwayRule ==
    pc = "stepped" =>
        \A p \in Positions(rows, cols) :
            grid[p] = (IF LivesNext(rows, cols, pre, p) THEN CELL_ALIVE ELSE CELL_DEAD)

\* C1 witness: a completed step in which one cell was born, one died of
\* overpopulation, one died of isolation and one survived.
C1_Witness ==
    /\ pc = "stepped"
    /\ \E p \in Positions(rows, cols) : pre[p] = CELL_DEAD /\ grid[p] = CELL_ALIVE
    /\ \E p \in Positions(rows, cols) :
          pre[p] = CELL_ALIVE /\ grid[p] = CELL_DEAD /\ AliveAround(rows, cols, pre, p) > 3
    /\ \E p \in Positions(rows, cols) :
          pre[p] = CELL_ALIVE /\ grid[p] = CELL_DEAD /\ AliveAround(rows, cols, pre, p) < 2
    /\ \E p \in Positions(rows, cols) : pre[p] = CELL_ALIVE /\ grid[p] = CELL_ALIVE

IsCorner(R, C, p) == p[1] \in {0, R - 1} /\ p[2] \in {0, C - 1}

IsEdge(R, C, p) == p[1] \in {0, R - 1} \/ p[2] \in {0, C - 1}

ReadSet == {reads.at[n] : n \in 1 .. Len(reads.at)}

\* C4: count_neighbors reads only positions inside [0,rows) x [0,cols), never
\* the cell itself, and never wraps around an edge (every position read is at
\* distance one of the cell, each read once); a corner cell has at most 3
\* counted neighbours and an edge cell at most 5.
C4_ReadsStayInside ==
    /\ ReadSet \subseteq Moore(rows, cols, reads.cell)
    /\ Cardinality(ReadSet) = Len(reads.at)
    /\ IsCorner(rows, cols, reads.cell) => Len(reads.at) <= 3
    /\ IsEdge(rows, cols, reads.cell) => Len(reads.at) <= 5

\* C4 witness: the count has been taken for a corner cell with 3 neighbours
\* in the grid, the last cell of a grid with an interior.
C4_Witness ==
    /\ pc = "commit"
    /\ rows >= 3
    /\ cols >= 3
    /\ reads.cell = <<rows - 1, cols - 1>>
    /\ Len(reads.at) = 3

\* C19: at every point of the mark phase (before any cell is marked, between
\* two cells, after the last one), for every cell (r, c) of the grid,
\* count_neighbors(r, c) taken on the partially marked grid is the number of
\* Alive Moore neighbours of (r, c) in the grid as it was when the step
\* began: a neighbour already marked Dying still counts, one already marked
\* Birth does not.
C19_CountsSeeSnapshot ==
    InsideStep =>
        \A p \in Positions(rows, cols) :
            count_neighbors(ctx, p[1], p[2]) = AliveAround(rows, cols, pre, p)

\* C19 witness: in the middle of the mark phase, a cell with a neighbour
\* already marked Dying and a neighbour already marked Birth.
C19_Witness ==
    /\ pc = "mark"
    /\ \E p \in Positions(rows, cols) :
          /\ \E q \in Moore(rows, cols, p) : grid[q] = CELL_DYING
          /\ \E q \in Moore(rows, cols, p) : grid[q] = CELL_BIRTH
          /\ grid[p] = pre[p]
          /\ p[1] * cols + p[2] >= mi * cols + mj



(* ------------- consecutive steps on a blinker and on a block ---------- *)

\* Largest side of a grid holding a blinker.
MaxBlinkerSide == 6

\* Largest side of a grid holding a block.
MaxBlockSide == 4

\* Largest number of consecutive simulate_step calls followed.
MaxCalls == 3

\* The sides of the grids holding a blinker: at least 5 rows and 5 columns.
BlinkerSides == 5 .. MaxBlinkerSide

\* The R x C grid whose Alive cells are those of the set alive.
GridOf(R, C, alive) ==
    [p \in Positions(R, C) |-> IF p \in alive THEN CELL_ALIVE ELSE CELL_DEAD]

\* Three horizontally consecutive cells of row r, from column c on.
BlinkerAt(r, c) == {<<r, c>>, <<r, c + 1>>, <<r, c + 2>>}

\* The 2x2 block whose upper left cell is (r, c).
BlockAt(r, c) == {<<r, c>>, <<r, c + 1>>, <<r + 1, c>>, <<r + 1, c + 1>>}

\* run_simulation's next tick with no event pending: simulate_step is called
\* again on the grid the call before it left.
NextCall ==
    /\ pc = "stepped"
    /\ commits < MaxCalls
    /\ pc' = "mark"
    /\ mi' = 0
    /\ mj' = 0
    /\ pre' = grid
    /\ UNCHANGED <<rows, cols, grid, reads, permVars, loopVars, click, runs, fileVars>>
    /\ UNCHANGED <<origin, mainVars>>

\* A blinker anywhere on a grid of at least 5x5, or a block anywhere on a
\* grid of at least two rows and two columns and more than four cells.
InitPattern ==
    /\ \/ \E R \in BlinkerSides, C \in BlinkerSides :
             \E r \in 0 .. R - 1, c \in 0 .. C - 3 :
                /\ rows = R
                /\ cols = C
                /\ grid = GridOf(R, C, BlinkerAt(r, c))
       \/ \E R \in 2 .. MaxBlockSide, C \in 2 .. MaxBlockSide :
             \E r \in 0 .. R - 2, c \in 0 .. C - 2 :
                /\ R * C > 4
                /\ rows = R
                /\ cols = C
                /\ grid = GridOf(R, C, BlockAt(r, c))
    /\ origin = grid
    /\ pre = grid
    /\ pc = "mark"
    /\ mi = 0
    /\ mj = 0
    /\ reads = NoReads
    /\ visited = {}
    /\ permuted = FALSE
    /\ config = NoConfig
    /\ running = FALSE
    /\ generation = 0
    /\ quit = NoQuit
    /\ since_quit = {}
    /\ reset_seen = FALSE
    /\ commits = 0
    /\ last_reset = NoReset
    /\ click = NoClick
    /\ runs = <<>>
    /\ file = <<>>
    /\ warned = FALSE
    /\ NoMain

NextPattern == MarkCell \/ Commit \/ NextCall

SpecPattern == InitPattern /\ [][NextPattern]_vars

AliveCells(g) == {p \in DOMAIN g : g[p] = CELL_ALIVE}

\* The rows r such that the Alive cells of g are three consecutive cells of r.
BlinkerRows(R, C, g) ==
    {r \in 0 .. R - 1 : \E c \in 0 .. C - 3 : AliveCells(g) = BlinkerAt(r, c)}

IsBlock(R, C, g) ==
    \E r \in 0 .. R - 2, c \in 0 .. C - 2 : AliveCells(g) = BlockAt(r, c)

\* C11 as stated: on any grid of at least 5x5 whose only Alive cells are three
\* horizontally consecutive cells of one row, two consecutive simulate_step
\* calls return the grid to exactly its original configuration, and a single
\* call does not.
C11_BlinkerPeriodTwo ==
    (pc = "stepped" /\ BlinkerRows(rows, cols, origin) # {}) =>
        /\ commits = 1 => grid # origin
        /\ commits = 2 => grid = origin

\* C11 as amended: on any grid of at least 5x5 whose only Alive cells are
\* three horizontally consecutive cells of one row that is neither the first
\* nor the last row of the grid, two consecutive simulate_step calls return
\* the grid to exactly its original configuration, and a single call does not.
C11_InnerBlinkerPeriodTwo ==
    (pc = "stepped" /\ BlinkerRows(rows, cols, origin) \cap (1 .. rows - 2) # {}) =>
        /\ commits = 1 => grid # origin
        /\ commits = 2 => grid = origin

\* C11 witness: the second call has returned on a blinker that began against
\* the left edge of an inner row, and the grid is the original one.
C11_Witness ==
    /\ pc = "stepped"
    /\ commits = 2
    /\ \E r \in 1 .. rows - 2 : AliveCells(origin) = BlinkerAt(r, 0)
    /\ grid = origin

\* C12: on any grid larger than 2x2 whose only Alive cells form a 2x2 block,
\* wherever the block lies (against an edge or in a corner too), the grid is
\* unchanged after every number n >= 1 of simulate_step calls.
C12_BlockIsStill ==
    (pc = "stepped" /\ IsBlock(rows, cols, origin)) => grid = origin

\* C12 witness: the third call has returned on a block in the lower right
\* corner of the grid.
C12_Witness ==
    /\ pc = "stepped"
    /\ commits >= 3
    /\ AliveCells(origin) = BlockAt(rows - 2, cols - 2)
    /\ rows * cols > 4

(* ------------- the mark phase in every visitation order --------------- *)

\* The first cell of the row-major order not yet visited.
RowMajorNext(R, C, seen) ==
    CHOOSE p \in Positions(R, C) \ seen :
        \A q \in Positions(R, C) \ seen : p[1] * C + p[2] <= q[1] * C + q[2]

\* One iteration of the mark loops' body, at any cell not yet visited.
MarkAny ==
    /\ pc = "mark"
    /\ \E p \in Positions(rows, cols) \ visited :
          /\ grid' = [grid EXCEPT ![p] = mark_cell(ctx, p[1], p[2])]
          /\ visited' = visited \cup {p}
          /\ permuted' = (permuted \/ p # RowMajorNext(rows, cols, visited))
          /\ pc' = IF visited' = Positions(rows, cols) THEN "commit" ELSE pc
    /\ UNCHANGED <<rows, cols, pre, stepVars, loopVars, click, runs, fileVars, origin, mainVars>>

InitPerm ==
    /\ \E d \in Dims(MaxPermCells) :
          /\ rows = d[1]
          /\ cols = d[2]
          /\ grid \in [Positions(d[1], d[2]) -> RestStates]
    /\ pre = grid
    /\ pc = "mark"
    /\ mi = 0
    /\ mj = 0
    /\ reads = NoReads
    /\ visited = {}
    /\ permuted = FALSE
    /\ config = NoConfig
    /\ running = FALSE
    /\ generation = 0
    /\ quit = NoQuit
    /\ since_quit = {}
    /\ reset_seen = FALSE
    /\ commits = 0
    /\ last_reset = NoReset
    /\ origin = <<>>
    /\ NoMain
    /\ click = NoClick
    /\ runs = <<>>
    /\ file = <<>>
    /\ warned = FALSE

NextPerm == MarkAny \/ Commit

SpecPerm == InitPerm /\ [][NextPerm]_vars

\* C2: whatever the order in which the mark phase visits the cells of an
\* at-rest grid, the grid after the commit phase is the one simulate_step
\* produces with its row-major order.
C2_OrderIndependent ==
    pc = "stepped" => grid = simulate_step(Ctx(rows, cols, pre))

\* C2 witness: a step completed in an order other than row-major, in which a
\* cell died and a cell was born.
C2_Witness ==
    /\ pc = "stepped"
    /\ permuted
    /\ \E p \in Positions(rows, cols) : pre[p] = CELL_ALIVE /\ grid[p] = CELL_DEAD
    /\ \E p \in Positions(rows, cols) : pre[p] = CELL_DEAD /\ grid[p] = CELL_ALIVE

(* ------------------------- handle_mouse_click ------------------------- *)

CELL_SIZE == 8

\* Largest number of cells of a grid that is clicked on.
MaxClickCells == 4

\* C's integer division of an int by a positive int: the quotient is
\* truncated toward zero.
CDiv(a, b) == IF a >= 0 THEN a \div b ELSE -((-a) \div b)

\* (size_t)v < n for an int v and a grid dimension n. The cast of a negative
\* int wraps to at least 2^64 - 2^31, which no dimension reaches.
size_lt(v, n) == v >= 0 /\ v < n

\* handle_mouse_click with x and y taken for each other.
handle_mouse_click_transposed(c, x, y) ==
    LET col == CDiv(y, CELL_SIZE)
        row == CDiv(x, CELL_SIZE)
    IN  IF size_lt(row, c.rows) /\ size_lt(col, c.cols)
        THEN [c.grid EXCEPT ![<<row, col>>] =
                 IF @ = CELL_ALIVE THEN CELL_DEAD ELSE CELL_ALIVE]
        ELSE c.grid

\* handle_mouse_click: the grid it leaves.
handle_mouse_click(c, x, y) ==
    LET col == CDiv(x, CELL_SIZE)
        row == CDiv(y, CELL_SIZE)
    IN  IF size_lt(row, c.rows) /\ size_lt(col, c.cols)
        THEN [c.grid EXCEPT ![<<row, col>>] =
                 IF @ = CELL_ALIVE THEN CELL_DEAD ELSE CELL_ALIVE]
        ELSE c.grid

\* Pixel coordinates along an axis of n cells: both ends of every cell, the
\* first pixels past the far end and pixels before the near end.
PixelSamples(n) ==
    {-CELL_SIZE - 1, -CELL_SIZE, -1}
        \cup {k * CELL_SIZE + o : k \in 0 .. n, o \in {0, CELL_SIZE - 1}}

\* One pixel of every cell along an axis of n cells, one before the near end
\* and one past the far end.
CellPixels(n) == {-1} \cup {k * CELL_SIZE : k \in 0 .. n}

\* A left click at (x, y), between two steps.
HandleMouseClick ==
    /\ pc = "poll"
    /\ \E x \in PixelSamples(cols), y \in PixelSamples(rows) :
          /\ grid' = handle_mouse_click(ctx, x, y)
          /\ click' = [x |-> x, y |-> y, done |-> TRUE]
    /\ pre' = grid
    /\ UNCHANGED <<rows, cols, pc, stepVars, permVars, loopVars, runs, fileVars, origin, mainVars>>

InitClick ==
    /\ \E d \in Dims(MaxClickCells) :
          /\ rows = d[1]
          /\ cols = d[2]
          /\ grid \in [Positions(d[1], d[2]) -> RestStates]
    /\ pre = grid
    /\ pc = "poll"
    /\ mi = 0
    /\ mj = 0
    /\ reads = NoReads
    /\ visited = {}
    /\ permuted = FALSE
    /\ config = NoConfig
    /\ running = FALSE
    /\ generation = 0
    /\ quit = NoQuit
    /\ since_quit = {}
    /\ reset_seen = FALSE
    /\ commits = 0
    /\ last_reset = NoReset
    /\ origin = <<>>
    /\ NoMain
    /\ click = NoClick
    /\ runs = <<>>
    /\ file = <<>>
    /\ warned = FALSE

NextClick == HandleMouseClick

SpecClick == InitClick /\ [][NextClick]_vars

\* The cell a pixel coordinate maps to: (y / CELL_SIZE, x / CELL_SIZE).
ClickedCell == <<CDiv(click.y, CELL_SIZE), CDiv(click.x, CELL_SIZE)>>

Flipped(s) == IF s = CELL_ALIVE THEN CELL_DEAD ELSE CELL_ALIVE

\* C7: on an at-rest grid, a click at a pixel that maps to an in-bounds
\* (row, col) = (y / CELL_SIZE, x / CELL_SIZE) turns that cell from Alive to
\* Dead or from Dead to Alive and leaves every other cell unchanged.
C7_ClickTogglesOneCell ==
    (click.done /\ ClickedCell \in Positions(rows, cols)) =>
        /\ grid[ClickedCell] \in RestStates
        /\ grid[ClickedCell] = Flipped(pre[ClickedCell])
        /\ \A p \in Positions(rows, cols) \ {ClickedCell} : grid[p] = pre[p]

\* C7 witness: a click on the cell (1, 0) of a grid of two columns and two
\* rows has brought it to life while another cell is alive.
C7_Witness ==
    /\ click.done
    /\ rows = 2
    /\ cols = 2
    /\ ClickedCell = <<1, 0>>
    /\ pre[<<1, 0>>] = CELL_DEAD
    /\ grid[<<1, 0>>] = CELL_ALIVE
    /\ grid[<<0, 1>>] = CELL_ALIVE

\* The pixel (x, y) lies outside the grid's pixel area.
OutsidePixelArea(x, y) ==
    \/ x < 0
    \/ y < 0
    \/ x >= cols * CELL_SIZE
    \/ y >= rows * CELL_SIZE

\* C8: a click at a pixel outside the grid's pixel area (x < 0, y < 0,
\* x >= cols * CELL_SIZE or y >= rows * CELL_SIZE) leaves every cell unchanged.
C8_OutsideClickIgnored ==
    (click.done /\ OutsidePixelArea(click.x, click.y)) => grid = pre

(* ----------------------- initialize_grid_random ----------------------- *)

\* Largest configured seed; 0 asks for the time as the seed.
MaxSeed == 2

\* Largest value time(NULL) returns.
MaxTime == 1

\* Largest number of executions of the random initializer that are compared.
MaxRuns == 2

\* The C library's generator is not part of the repository. The model takes a
\* linear congruential generator for it: srand(seed) sets the generator's
\* state to the seed, rand() advances the state and returns it, so that the
\* sequence drawn is a function of the seed, as the C standard requires.
RAND_A == 75

RAND_C == 74

RAND_M == 65537

RECURSIVE rand_nth(_, _)
\* The value of the n-th rand() after srand(seed), n >= 1.
rand_nth(seed, n) ==
    IF n = 0 THEN seed % RAND_M
    ELSE (rand_nth(seed, n - 1) * RAND_A + RAND_C) % RAND_M

\* The grid a generator seeded with "seed" fills in, row by row.
random_fill(c, seed) ==
    [p \in Positions(c.rows, c.cols) |->
        IF rand_nth(seed, p[1] * c.cols + p[2] + 1) % 2 # 0
        THEN CELL_ALIVE ELSE CELL_DEAD]

\* initialize_grid_random seeding the generator with the time whatever the
\* configured seed.
initialize_grid_random_time_seeded(c, cfg, now) == random_fill(c, now)

\* initialize_grid_random: the grid it leaves, "now" being what time(NULL)
\* returns.
initialize_grid_random(c, cfg, now) ==
    LET seed == IF cfg.seed = 0 THEN now ELSE cfg.seed
    IN  random_fill(c, seed)

\* One execution of the random initializer on a freshly allocated grid.
RunRandom ==
    /\ pc = "init"
    /\ Len(runs) < MaxRuns
    /\ \E now \in 0 .. MaxTime :
          grid' = initialize_grid_random(
                      Ctx(rows, cols, [p \in Positions(rows, cols) |-> CELL_DEAD]),
                      config, now)
    /\ runs' = Append(runs, grid')
    /\ UNCHANGED <<rows, cols, pc, pre, stepVars, permVars, loopVars, click, fileVars, origin, mainVars>>

InitRandom ==
    /\ \E d \in Dims(MaxCells) :
          /\ rows = d[1]
          /\ cols = d[2]
          /\ grid = [p \in Positions(d[1], d[2]) |-> CELL_DEAD]
    /\ pre = grid
    /\ pc = "init"
    /\ mi = 0
    /\ mj = 0
    /\ reads = NoReads
    /\ visited = {}
    /\ permuted = FALSE
    /\ \E sd \in 0 .. MaxSeed :
          config = [steps |-> 0, seed |-> sd, config_type |-> "random"]
    /\ running = FALSE
    /\ generation = 0
    /\ quit = NoQuit
    /\ since_quit = {}
    /\ reset_seen = FALSE
    /\ commits = 0
    /\ last_reset = NoReset
    /\ origin = <<>>
    /\ NoMain
    /\ click = NoClick
    /\ runs = <<>>
    /\ file = <<>>
    /\ warned = FALSE

NextRandom == RunRandom

SpecRandom == InitRandom /\ [][NextRandom]_vars

\* C10: with a non-zero seed, the executions of initialize_grid_random on a
\* grid size leave grids that are identical cell for cell, and every cell of
\* the result is Alive or Dead.
C10_RandomDeterministic ==
    /\ \A n \in 1 .. Len(runs) : \A p \in Positions(rows, cols) : runs[n][p] \in RestStates
    /\ config.seed # 0 =>
          \A m, n \in 1 .. Len(runs) :
              \A p \in Positions(rows, cols) : runs[m][p] = runs[n][p]

\* C10 witness: two executions with a non-zero seed, at different times or
\* not, have left a grid with a live and a dead cell.
C10_Witness ==
    /\ Len(runs) = 2
    /\ config.seed # 0
    /\ \E p, q \in Positions(rows, cols) :
          runs[2][p] = CELL_ALIVE /\ runs[2][q] = CELL_DEAD

(* --------------------------- run_simulation --------------------------- *)

\* Largest number of cells of the grid of a simulation loop.
MaxSessionCells == 4

\* Largest number of cells of the grid of a loop followed to its end; the
\* step limit reads no cell.
MaxLiveCells == 2

\* Largest configured step limit; 0 asks for an unbounded run.
MaxSteps == 2

\* Largest configured seed of a simulation loop.
MaxSessionSeed == 1

\* The generation counter is an unsigned int; the loops explored stop
\* advancing at this value, one past the largest step limit.
GenCap == MaxSteps + 1

\* The configurations main hands to run_simulation: the mode is one of the
\* two main accepts; the seed, which a manual session never reads, is left at
\* its default there.
SessionConfigs ==
    {[steps |-> st, seed |-> sd, config_type |-> "random"] :
        st \in 0 .. MaxSteps, sd \in 0 .. MaxSessionSeed}
    \cup {[steps |-> st, seed |-> 0, config_type |-> "manual"] : st \in 0 .. MaxSteps}

\* case SDL_QUIT: running = false; the break leaves the switch only.
PollQuit ==
    /\ pc = "poll"
    /\ running' = FALSE
    /\ quit' = IF quit.seen THEN quit
               ELSE [seen |-> TRUE, generation |-> generation]
    /\ UNCHANGED <<rows, cols, grid, pc, pre, stepVars, permVars, click, runs, fileVars, origin, mainVars>>
    /\ UNCHANGED <<config, generation, since_quit, reset_seen, commits, last_reset>>

\* case SDL_MOUSEBUTTONDOWN: a left click goes to handle_mouse_click.
PollMouseButton ==
    /\ pc = "poll"
    /\ \E button \in {"LEFT", "RIGHT"} :
          IF button = "LEFT"
          THEN /\ \E x \in CellPixels(cols), y \in CellPixels(rows) :
                     grid' = handle_mouse_click(ctx, x, y)
               /\ since_quit' = AfterQuit("input")
               /\ last_reset' = NoReset
          ELSE UNCHANGED <<grid, since_quit, last_reset>>
    /\ pre' = grid'
    /\ UNCHANGED <<rows, cols, pc, stepVars, permVars, click, runs, fileVars, origin, mainVars>>
    /\ UNCHANGED <<config, running, generation, quit, reset_seen, commits>>

\* PollKeyDown with generation = 0 inside the test for the random mode.
PollKeyDown_reset_random_only ==
    /\ pc = "poll"
    /\ \E sym \in {"SPACE", "r", "other"} :
          IF sym = "r"
          THEN /\ IF config.config_type = "random"
                  THEN /\ \E now \in 0 .. MaxTime :
                             grid' = initialize_grid_random(ctx, config, now)
                       /\ generation' = 0
                  ELSE UNCHANGED <<grid, generation>>
               /\ reset_seen' = TRUE
               /\ commits' = 0
               /\ last_reset' = [fresh |-> TRUE, changed |-> grid' # grid]
               /\ since_quit' = AfterQuit("input")
          ELSE UNCHANGED <<grid, generation, reset_seen, commits, last_reset, since_quit>>
    /\ pre' = grid'
    /\ UNCHANGED <<rows, cols, pc, stepVars, permVars, click, runs, fileVars, origin, mainVars>>
    /\ UNCHANGED <<config, running, quit>>

\* PollKeyDown with the reset seeding the generator from the clock, whatever
\* seed is configured.
PollKeyDown_reset_clock_seeded ==
    /\ pc = "poll"
    /\ \E sym \in {"SPACE", "r", "other"} :
          IF sym = "r"
          THEN /\ IF config.config_type = "random"
                  THEN \E now \in 0 .. MaxTime :
                          grid' = initialize_grid_random(ctx, [config EXCEPT !.seed = 0], now)
                  ELSE grid' = grid
               /\ generation' = 0
               /\ reset_seen' = TRUE
               /\ commits' = 0
               /\ last_reset' = [fresh |-> TRUE, changed |-> grid' # grid]
               /\ since_quit' = AfterQuit("input")
          ELSE UNCHANGED <<grid, generation, reset_seen, commits, last_reset, since_quit>>
    /\ pre' = grid'
    /\ UNCHANGED <<rows, cols, pc, stepVars, permVars, click, runs, fileVars, origin, mainVars>>
    /\ UNCHANGED <<config, running, quit>>

\* case SDL_KEYDOWN: space sleeps; r re-randomizes a random session and
\* resets the generation counter of any session; other keys do nothing.
PollKeyDown ==
    /\ pc = "poll"
    /\ \E sym \in {"SPACE", "r", "other"} :
          IF sym = "r"
          THEN /\ IF config.config_type = "random"
                  THEN \E now \in 0 .. MaxTime :
                          grid' = initialize_grid_random(ctx, config, now)
                  ELSE grid' = grid
               /\ generation' = 0
               /\ reset_seen' = TRUE
               /\ commits' = 0
               /\ last_reset' = [fresh |-> TRUE, changed |-> grid' # grid]
               /\ since_quit' = AfterQuit("input")
          ELSE UNCHANGED <<grid, generation, reset_seen, commits, last_reset, since_quit>>
    /\ pre' = grid'
    /\ UNCHANGED <<rows, cols, pc, stepVars, permVars, click, runs, fileVars, origin, mainVars>>
    /\ UNCHANGED <<config, running, quit>>

\* SDL_PollEvent returns 0: the events are drained; render_grid draws the
\* grid and simulate_step is entered.
Render ==
    /\ pc = "poll"
    /\ pc' = "mark"
    /\ mi' = 0
    /\ mj' = 0
    /\ pre' = grid
    /\ since_quit' = AfterQuit("render")
    /\ last_reset' = NoReset
    /\ UNCHANGED <<rows, cols, grid, reads, permVars, click, runs, fileVars, origin, mainVars>>
    /\ UNCHANGED <<config, running, generation, quit, reset_seen, commits>>

\* Advance with the step limit compared with > in place of >=.
Advance_limit_off_by_one ==
    /\ pc = "stepped"
    /\ generation < GenCap
    /\ generation' = generation + 1
    /\ running' = IF config.steps > 0 /\ generation' > config.steps
                  THEN FALSE ELSE running
    /\ pc' = IF running' THEN "poll" ELSE "stopped"
    /\ reads' = NoReads
    /\ pre' = IF running' THEN grid ELSE pre
    /\ UNCHANGED <<rows, cols, grid, mi, mj, permVars, click, runs, fileVars, origin, mainVars>>
    /\ UNCHANGED <<config, quit, since_quit, reset_seen, commits, last_reset>>

\* generation++, the step limit, the delay and the test of the while loop.
Advance ==
    /\ pc = "stepped"
    /\ generation < GenCap
    /\ generation' = generation + 1
    /\ running' = IF config.steps > 0 /\ generation' >= config.steps
                  THEN FALSE ELSE running
    /\ pc' = IF running' THEN "poll" ELSE "stopped"
    /\ reads' = NoReads
    /\ pre' = IF running' THEN grid ELSE pre
    /\ UNCHANGED <<rows, cols, grid, mi, mj, permVars, click, runs, fileVars, origin, mainVars>>
    /\ UNCHANGED <<config, quit, since_quit, reset_seen, commits, last_reset>>

\* The entry of run_simulation on a grid of at most n cells, the grid
\* initialized by main for the mode.
SessionInit(n) ==
    /\ \E d \in Dims(n) :
          /\ rows = d[1]
          /\ cols = d[2]
    /\ config \in SessionConfigs
    /\ IF config.config_type = "random"
       THEN \E now \in 0 .. MaxTime :
               grid = initialize_grid_random(
                          Ctx(rows, cols, [p \in Positions(rows, cols) |-> CELL_DEAD]),
                          config, now)
       ELSE grid \in [Positions(rows, cols) -> RestStates]
    /\ pre = grid
    /\ pc = "poll"
    /\ mi = 0
    /\ mj = 0
    /\ reads = NoReads
    /\ visited = {}
    /\ permuted = FALSE
    /\ running = TRUE
    /\ generation = 0
    /\ quit = NoQuit
    /\ since_quit = {}
    /\ reset_seen = FALSE
    /\ commits = 0
    /\ last_reset = NoReset
    /\ origin = <<>>
    /\ NoMain
    /\ click = NoClick
    /\ runs = <<>>
    /\ file = <<>>
    /\ warned = FALSE

Init == SessionInit(MaxSessionCells)

Next ==
    \/ PollQuit
    \/ PollMouseButton
    \/ PollKeyDown
    \/ Render
    \/ MarkCell
    \/ Commit
    \/ Advance

Spec == Init /\ [][Next]_vars

\* The loop under the scheduling of the code: the drain of the events ends
\* when SDL_PollEvent returns 0, and each statement of a tick follows the one
\* before it.
SpecLive ==
    /\ SessionInit(MaxLiveCells)
    /\ [][Next]_vars
    /\ WF_vars(Render)
    /\ WF_vars(MarkCell)
    /\ WF_vars(Commit)
    /\ WF_vars(Advance)

\* C3: outside the body of simulate_step (at the start of the loop, after
\* every completed step, after any click or reset) every cell is Dead or
\* Alive, so that handle_mouse_click and render_grid, which run at "poll",
\* see no Dying and no Birth cell.
C3_AtRestDeadOrAlive ==
    ~InsideStep => \A p \in Positions(rows, cols) : grid[p] \in RestStates

\* C3 witness: the second step of a loop has returned and a cell was born in it.
C3_Witness ==
    /\ pc = "stepped"
    /\ generation >= 1
    /\ \E p \in Positions(rows, cols) : pre[p] = CELL_DEAD /\ grid[p] = CELL_ALIVE

\* C5: when a quit signal is drained in a tick, the loop ends in that tick
\* with no further rendering and no further stepping: the grid and the
\* generation counter at the end of the loop are those of the moment the
\* quit signal was observed. (Stated for the ticks in which no click and no
\* reset follows the quit signal in the drain; the grid at that moment is then
\* the grid "pre" on which the tick's step, if any, was entered.)
C5_QuitStopsAtOnce ==
    (pc = "stopped" /\ quit.seen /\ "input" \notin since_quit) =>
        /\ since_quit = {}
        /\ generation = quit.generation
        /\ grid = pre

\* C6, the safety part: a loop with steps = N > 0 that saw no quit and no
\* reset signal has committed at most N generations, and exactly N when it
\* is stopped; a loop with steps = 0 is stopped only after a quit signal.
C6_LimitSafety ==
    /\ (config.steps > 0 /\ ~quit.seen /\ ~reset_seen) =>
          /\ commits <= config.steps
          /\ pc = "stopped" => commits = config.steps
    /\ (config.steps = 0 /\ pc = "stopped") => quit.seen

\* C6: a loop with steps = N > 0 in which no quit and no reset signal occurs
\* commits exactly N generations and then reaches Stopped, never committing
\* generation N + 1; a loop with steps = 0 never reaches Stopped unless a
\* quit signal is received.
C6_StepLimit ==
    /\ []C6_LimitSafety
    /\ <>(config.steps = 0 \/ quit.seen \/ reset_seen \/ pc = "stopped")

\* C6 witness: a loop with steps = 2 is stopped after two commits, no quit
\* and no reset signal seen.
C6_Witness ==
    /\ pc = "stopped"
    /\ config.steps = 2
    /\ commits = 2
    /\ ~quit.seen
    /\ ~reset_seen

\* The control thread is between two ticks, or past the last one.
BetweenTicks == pc \in {"poll", "stopped"}

ResetSignal == pc = "poll" /\ reset_seen' /\ (~reset_seen \/ commits' < commits)

\* C14: in a manual-mode loop a reset signal is a no-op in effect: it leaves
\* the grid, the generation counter and the running flag as they were, so
\* that the loop goes on, and a step-limited one reaches Stopped, as in the
\* run without that reset signal.
C14_ManualResetNoOp ==
    [][(config.config_type = "manual" /\ ResetSignal) =>
          (grid' = grid /\ generation' = generation /\ running' = running)]_vars

(* ------------------- the reset key of a random session ---------------- *)

\* Largest number of cells of the grid of a random session followed through
\* its reset keys.
MaxResetCells == 4

\* Largest configured seed of such a session; 0 asks for the clock.
MaxResetSeed == 2

\* The configurations of the random sessions.
ResetConfigs ==
    {[steps |-> st, seed |-> sd, config_type |-> "random"] :
        st \in 0 .. MaxSteps, sd \in 0 .. MaxResetSeed}

\* The entry of run_simulation in a random session: main has called
\* initialize_grid_random on the grid allocate_grid left, and the grid it
\* made is kept in origin.
InitReset ==
    /\ \E d \in Dims(MaxResetCells) :
          /\ rows = d[1]
          /\ cols = d[2]
    /\ config \in ResetConfigs
    /\ \E now \in 0 .. MaxTime :
          grid = initialize_grid_random(
                     Ctx(rows, cols, [p \in Positions(rows, cols) |-> CELL_DEAD]),
                     config, now)
    /\ origin = grid
    /\ pre = grid
    /\ pc = "poll"
    /\ mi = 0
    /\ mj = 0
    /\ reads = NoReads
    /\ visited = {}
    /\ permuted = FALSE
    /\ running = TRUE
    /\ generation = 0
    /\ quit = NoQuit
    /\ since_quit = {}
    /\ reset_seen = FALSE
    /\ commits = 0
    /\ last_reset = NoReset
    /\ NoMain
    /\ click = NoClick
    /\ runs = <<>>
    /\ file = <<>>
    /\ warned = FALSE

SpecReset == InitReset /\ [][Next]_vars

\* C21: in a random-mode session a reset signal re-runs the random
\* initializer with the configured seed, so when the seed is non-zero the
\* grid immediately after every reset is identical, cell for cell, to the
\* session's initial grid, whatever steps and click toggles happened before
\* the reset.
C21_ResetRestoresInitialGrid ==
    (config.config_type = "random" /\ config.seed # 0 /\ last_reset.fresh) =>
        /\ DOMAIN grid = DOMAIN origin
        /\ \A p \in Positions(rows, cols) : grid[p] = origin[p]

\* C21 witness: a session with a non-zero seed right after a reset key that
\* changed the grid; a quit signal drained before it saw a committed step.
C21_Witness ==
    /\ config.config_type = "random"
    /\ config.seed # 0
    /\ last_reset.fresh
    /\ last_reset.changed
    /\ quit.seen
    /\ quit.generation >= 1
    /\ grid = origin

(* ---------------- initialize_grid_manual, parse_manual_config --------- *)

\* Largest number of cells of a grid initialized from a pattern.
MaxManualCells == 4

\* Largest number of characters after the @grid line of a file.
MaxFileLen == 4

ALIVE_MARKERS == {"1", "#", "*", "X"}

DEAD_MARKERS == {"0", ".", " "}

\* The characters the files explored are made of: a marker of each kind that
\* can begin a line, a separator, the @ of a configuration line and the end
\* of line.
FileChars == {"1", "#", "0", ",", "@", "\n"}

GRID_KEY == <<"@", "g", "r", "i", "d">>

\* The sequences of at most n elements of S.
SeqUpTo(S, n) == UNION {[1 .. m -> S] : m \in 0 .. n}

RECURSIVE fgets_lines(_)
\* The buffers the successive fgets calls return on content f: each line with
\* its end of line, the last one without if the file does not end in one.
\* (Lines stay shorter than BUFFER_SIZE, so none is split.)
fgets_lines(f) ==
    IF f = <<>> THEN <<>>
    ELSE LET ends == {n \in 1 .. Len(f) : f[n] = "\n"}
             cut == IF ends = {} THEN Len(f)
                    ELSE CHOOSE n \in ends : \A m \in ends : n <= m
         IN  <<SubSeq(f, 1, cut)>> \o fgets_lines(SubSeq(f, cut + 1, Len(f)))

\* strncmp(buffer, "@grid", 5) == 0
is_grid_key(buffer) ==
    Len(buffer) >= Len(GRID_KEY) /\ SubSeq(buffer, 1, Len(GRID_KEY)) = GRID_KEY

RECURSIVE parse_row(_, _, _, _, _, _)
\* The loop over the characters of a grid row from index i on (i counts from
\* 1), col cells of row current_row written so far.
parse_row(c, g, buffer, current_row, i, col) ==
    IF i > Len(buffer) \/ col >= c.cols THEN g
    ELSE IF buffer[i] \in ALIVE_MARKERS
    THEN parse_row(c, [g EXCEPT ![<<current_row, col>>] = CELL_ALIVE],
                   buffer, current_row, i + 1, col + 1)
    ELSE IF buffer[i] \in DEAD_MARKERS
    THEN parse_row(c, [g EXCEPT ![<<current_row, col>>] = CELL_DEAD],
                   buffer, current_row, i + 1, col + 1)
    ELSE parse_row(c, g, buffer, current_row, i + 1, col)

\* The body of the fgets loop for one buffer: the loop's state after it.
parse_line(c, st, buffer) ==
    IF buffer[1] = "\n" \/ buffer[1] = "#" THEN st
    ELSE IF is_grid_key(buffer)
    THEN [st EXCEPT !.in_grid_section = TRUE, !.current_row = 0]
    ELSE IF ~st.in_grid_section THEN st
    ELSE IF buffer[1] = "@" THEN st
    ELSE IF st.current_row < c.rows
    THEN [st EXCEPT !.grid = parse_row(c, st.grid, buffer, st.current_row, 1, 0),
                    !.current_row = st.current_row + 1]
    ELSE st

RECURSIVE parse_lines(_, _, _, _)
\* The fgets loop from the n-th buffer on.
parse_lines(c, st, lines, n) ==
    IF n > Len(lines) THEN st
    ELSE parse_lines(c, parse_line(c, st, lines[n]), lines, n + 1)

\* parse_manual_config on an open file of content f: the grid it leaves and
\* whether it warned.
parse_manual_config(c, f) ==
    LET st == parse_lines(c, [in_grid_section |-> FALSE, current_row |-> 0,
                              grid |-> c.grid],
                          fgets_lines(f), 1)
    IN  [grid |-> st.grid,
         warned |-> st.in_grid_section /\ st.current_row < c.rows]

\* initialize_grid_manual on a file that can be opened.
initialize_grid_manual(c, f) ==
    parse_manual_config(
        [c EXCEPT !.grid = [p \in Positions(c.rows, c.cols) |-> CELL_DEAD]], f)

InitializeGridManual ==
    /\ pc = "init"
    /\ LET out == initialize_grid_manual(ctx, file)
       IN  /\ grid' = out.grid
           /\ warned' = out.warned
    /\ pc' = "initialized"
    /\ UNCHANGED <<rows, cols, pre, stepVars, permVars, loopVars, click, runs, file, origin, mainVars>>

NL == <<"\n">>

\* The pattern of the usage text: a vertical bar of three cells.
ExampleRows ==
    << <<"0", "0", "1", "0", "0">>, <<"0", "0", "1", "0", "0">>,
       <<"0", "0", "1", "0", "0">>, <<"0", "0", "0", "0", "0">>,
       <<"0", "0", "0", "0", "0">> >>

ExampleFile ==
    GRID_KEY \o NL \o ExampleRows[1] \o NL \o ExampleRows[2] \o NL
        \o ExampleRows[3] \o NL \o ExampleRows[4] \o NL \o ExampleRows[5] \o NL

\* A grid as calloc leaves it and a file: the @grid line, then any content of
\* at most MaxFileLen characters, or the example of the usage text.
InitManual ==
    /\ \/ \E d \in Dims(MaxManualCells) :
             /\ rows = d[1]
             /\ cols = d[2]
             /\ \E body \in SeqUpTo(FileChars, MaxFileLen) :
                   file = GRID_KEY \o NL \o body
       \/ /\ rows = Len(ExampleRows)
          /\ cols = Len(ExampleRows[1])
          /\ file = ExampleFile
    /\ grid = [p \in Positions(rows, cols) |-> CELL_DEAD]
    /\ warned = FALSE
    /\ pre = grid
    /\ pc = "init"
    /\ mi = 0
    /\ mj = 0
    /\ reads = NoReads
    /\ visited = {}
    /\ permuted = FALSE
    /\ config = [steps |-> 0, seed |-> 0, config_type |-> "manual"]
    /\ running = FALSE
    /\ generation = 0
    /\ quit = NoQuit
    /\ since_quit = {}
    /\ reset_seen = FALSE
    /\ commits = 0
    /\ last_reset = NoReset
    /\ origin = <<>>
    /\ NoMain
    /\ click = NoClick
    /\ runs = <<>>

NextManual == InitializeGridManual

SpecManual == InitManual /\ [][NextManual]_vars

\* A line without its end of line.
Chomp(line) ==
    IF line # <<>> /\ line[Len(line)] = "\n" THEN SubSeq(line, 1, Len(line) - 1)
    ELSE line

IsMarker(ch) == ch \in ALIVE_MARKERS \cup DEAD_MARKERS

IsPatternLine(line) == Chomp(line) # <<>> /\ line[1] # "@"

\* The pattern rows of the file: the lines after the @grid line that are
\* neither blank nor configuration lines.
PatternRows ==
    LET lines == fgets_lines(file)
        body == SubSeq(lines, 2, Len(lines))
    IN  SelectSeq(body, IsPatternLine)

\* The marker characters of a pattern row, every other character skipped.
Markers(line) == SelectSeq(line, IsMarker)

\* C9: manual initialization yields a grid in which cell (r, k) is Alive if
\* and only if pattern row r exists and its k-th marker character is one of
\* 1 # * X, and Dead otherwise; pattern rows beyond rows and markers beyond
\* cols change nothing. In particular the rows 00100, 00100, 00100, 00000,
\* 00000 on a 5x5 grid give exactly the live cells (0,2), (1,2), (2,2).
C9_ManualPattern ==
    pc = "initialized" =>
        /\ \A p \in Positions(rows, cols) :
              grid[p] = (IF /\ p[1] < Len(PatternRows)
                            /\ p[2] < Len(Markers(PatternRows[p[1] + 1]))
                            /\ Markers(PatternRows[p[1] + 1])[p[2] + 1] \in ALIVE_MARKERS
                         THEN CELL_ALIVE ELSE CELL_DEAD)
        /\ file = ExampleFile =>
              {p \in Positions(rows, cols) : grid[p] = CELL_ALIVE}
                  = {<<0, 2>>, <<1, 2>>, <<2, 2>>}

(* ------------------------- parse_config_file -------------------------- *)

GOL_SUCCESS == 0

GOL_ERROR_ARGS == 1

GOL_ERROR_FILE == 2

GOL_ERROR_CONFIG == 3

GOL_ERROR_SDL == 4

GOL_ERROR_MEMORY == 5

CONFIG_RANDOM == <<"r", "a", "n", "d", "o", "m">>

CONFIG_MANUAL == <<"m", "a", "n", "u", "a", "l">>

NROWS_KEY == <<"@", "n", "r", "o", "w", "s">>

NCOLS_KEY == <<"@", "n", "c", "o", "l", "s">>

STEPS_KEY == <<"@", "s", "t", "e", "p", "s">>

SEED_KEY == <<"@", "s", "e", "e", "d">>

CONFIG_KEY == <<"@", "c", "o", "n", "f", "i", "g">>

Digits == <<"0", "1", "2", "3", "4", "5", "6", "7", "8", "9">>

isspace(ch) == ch \in {" ", "\n", "\t"}

isdigit(ch) == \E d \in 1 .. Len(Digits) : Digits[d] = ch

digit_value(ch) == (CHOOSE d \in 1 .. Len(Digits) : Digits[d] = ch) - 1

RECURSIVE skip_space(_, _)
\* The index of the first character of buffer from i on that is no white
\* space, Len(buffer) + 1 if there is none.
skip_space(buffer, i) ==
    IF i <= Len(buffer) /\ isspace(buffer[i]) THEN skip_space(buffer, i + 1) ELSE i

RECURSIVE scan_digits(_, _, _)
\* The decimal digits of buffer from i on, acc being the value of those read
\* so far: the index after the last digit and the value.
scan_digits(buffer, i, acc) ==
    IF i <= Len(buffer) /\ isdigit(buffer[i])
    THEN scan_digits(buffer, i + 1, acc * 10 + digit_value(buffer[i]))
    ELSE [next |-> i, value |-> acc]

RECURSIVE scan_word(_, _)
\* The characters of buffer from i on up to the next white space.
scan_word(buffer, i) ==
    IF i <= Len(buffer) /\ ~isspace(buffer[i])
    THEN <<buffer[i]>> \o scan_word(buffer, i + 1)
    ELSE <<>>

\* The literal characters of a sscanf format match the start of buffer.
has_prefix(buffer, key) ==
    Len(buffer) >= Len(key) /\ SubSeq(buffer, 1, Len(key)) = key

\* sscanf(buffer, "<key> %u", &value) == 1, and the value stored: the key, any
\* white space, then at least one digit. (The files explored write no sign.)
sscanf_uint(buffer, key) ==
    IF ~has_prefix(buffer, key) THEN [ok |-> FALSE, value |-> 0]
    ELSE LET i == skip_space(buffer, Len(key) + 1)
             d == scan_digits(buffer, i, 0)
         IN  [ok |-> d.next > i, value |-> d.value]

\* sscanf(buffer, "<key> %199s", word) == 1, and the word stored. (The words
\* explored are shorter than 199 characters.)
sscanf_word(buffer, key) ==
    IF ~has_prefix(buffer, key) THEN [ok |-> FALSE, word |-> <<>>]
    ELSE LET w == scan_word(buffer, skip_space(buffer, Len(key) + 1))
         IN  [ok |-> w # <<>>, word |-> w]

\* gol_config_t as main's ctx = {0} leaves it, and the three flags of
\* parse_config_file, with the defaults parse_config_file sets.
ConfigDefaults ==
    [rows |-> 0, cols |-> 0, steps |-> 0, seed |-> 0, config_type |-> <<>>,
     rows_set |-> FALSE, cols_set |-> FALSE, config_set |-> FALSE]

\* The body of the fgets loop of parse_config_file for one buffer.
parse_config_line(cfg, buffer) ==
    IF buffer[1] = "\n" \/ buffer[1] = "#" THEN cfg
    ELSE IF sscanf_uint(buffer, NROWS_KEY).ok
    THEN [cfg EXCEPT !.rows = sscanf_uint(buffer, NROWS_KEY).value, !.rows_set = TRUE]
    ELSE IF sscanf_uint(buffer, NCOLS_KEY).ok
    THEN [cfg EXCEPT !.cols = sscanf_uint(buffer, NCOLS_KEY).value, !.cols_set = TRUE]
    ELSE IF sscanf_uint(buffer, STEPS_KEY).ok
    THEN [cfg EXCEPT !.steps = sscanf_uint(buffer, STEPS_KEY).value]
    ELSE IF sscanf_uint(buffer, SEED_KEY).ok
    THEN [cfg EXCEPT !.seed = sscanf_uint(buffer, SEED_KEY).value]
    ELSE IF sscanf_word(buffer, CONFIG_KEY).ok
    THEN [cfg EXCEPT !.config_type = sscanf_word(buffer, CONFIG_KEY).word,
                     !.config_set = TRUE]
    ELSE cfg

RECURSIVE parse_config_lines(_, _, _)
\* The fgets loop of parse_config_file from the n-th buffer on.
parse_config_lines(cfg, lines, n) ==
    IF n > Len(lines) THEN cfg
    ELSE parse_config_lines(parse_config_line(cfg, lines[n]), lines, n + 1)

\* parse_config_file without the test for a zero dimension.
parse_config_file_accepts_zero(f) ==
    LET cfg == parse_config_lines(ConfigDefaults, fgets_lines(f), 1)
    IN  [config |-> cfg,
         result |-> IF ~cfg.rows_set \/ ~cfg.cols_set \/ ~cfg.config_set
                    THEN GOL_ERROR_CONFIG
                    ELSE GOL_SUCCESS]

\* parse_config_file on an open file of content f: the configuration it
\* leaves and the result it returns.
parse_config_file(f) ==
    LET cfg == parse_config_lines(ConfigDefaults, fgets_lines(f), 1)
    IN  [config |-> cfg,
         result |-> IF ~cfg.rows_set \/ ~cfg.cols_set \/ ~cfg.config_set
                    THEN GOL_ERROR_CONFIG
                    ELSE IF cfg.rows = 0 \/ cfg.cols = 0
                    THEN GOL_ERROR_CONFIG
                    ELSE GOL_SUCCESS]

\* The outcome of the strcmp calls on ctx->config.config_type, as run_simulation
\* and main test it.
type_name(word) ==
    IF word = CONFIG_RANDOM THEN "random"
    ELSE IF word = CONFIG_MANUAL THEN "manual"
    ELSE IF word = <<>> THEN ""
    ELSE "other"

(* ------------------ allocate_grid, deallocate_grid, SDL --------------- *)

acquire(e) == [e EXCEPT !.acq = @ + 1]

release(e) == [e EXCEPT !.rel = @ + 1]

\* allocate_grid that frees the row-pointer array only when a row fails.
allocate_grid_keeps_rows(c, led, fail) ==
    IF fail = 0
    THEN [result |-> GOL_ERROR_MEMORY, ptr |-> FALSE, grid |-> <<>>, ledger |-> led]
    ELSE LET i == IF fail < 0 THEN c.rows ELSE fail - 1
             got == [led EXCEPT !.array = acquire(@),
                                !.row = [j \in 1 .. i |-> acquire(Unused)]]
         IN  IF fail < 0
             THEN [result |-> GOL_SUCCESS, ptr |-> TRUE,
                   grid |-> [p \in Positions(c.rows, c.cols) |-> 0], ledger |-> got]
             ELSE [result |-> GOL_ERROR_MEMORY, ptr |-> FALSE, grid |-> <<>>,
                   ledger |-> [got EXCEPT !.array = release(@)]]

\* allocate_grid when the calloc call number fail returns NULL (call 0 is for
\* the row-pointer array, call i + 1 for row i; fail < 0: none does): the
\* result, whether ctx->grid is non-null, the cells, and the ledger. calloc
\* leaves every cell 0.
allocate_grid(c, led, fail) ==
    IF fail = 0
    THEN [result |-> GOL_ERROR_MEMORY, ptr |-> FALSE, grid |-> <<>>, ledger |-> led]
    ELSE LET i == IF fail < 0 THEN c.rows ELSE fail - 1
             got == [led EXCEPT !.array = acquire(@),
                                !.row = [j \in 1 .. i |-> acquire(Unused)]]
         IN  IF fail < 0
             THEN [result |-> GOL_SUCCESS, ptr |-> TRUE,
                   grid |-> [p \in Positions(c.rows, c.cols) |-> 0], ledger |-> got]
             ELSE [result |-> GOL_ERROR_MEMORY, ptr |-> FALSE, grid |-> <<>>,
                   ledger |-> [got EXCEPT !.row = [j \in 1 .. i |-> release(@[j])],
                                          !.array = release(@)]]

\* deallocate_grid: the pointers and the ledger it leaves.
deallocate_grid(c, p, led) ==
    IF ~p.grid THEN [ptrs |-> p, ledger |-> led]
    ELSE [ptrs |-> [p EXCEPT !.grid = FALSE],
          ledger |-> [led EXCEPT !.row = [j \in 1 .. c.rows |-> release(@[j])],
                                 !.array = release(@)]]

SDL_CALLS == {"SDL_Init", "SDL_CreateWindow", "SDL_CreateRenderer"}

\* initialize_sdl that only quits SDL when the renderer cannot be created.
initialize_sdl_keeps_window(p, led, fail) ==
    IF fail = "SDL_Init"
    THEN [result |-> GOL_ERROR_SDL, ptrs |-> p, ledger |-> led]
    ELSE IF fail = "SDL_CreateWindow"
    THEN [result |-> GOL_ERROR_SDL, ptrs |-> [p EXCEPT !.window = FALSE],
          ledger |-> [led EXCEPT !.sdl = release(acquire(@))]]
    ELSE IF fail = "SDL_CreateRenderer"
    THEN [result |-> GOL_ERROR_SDL,
          ptrs |-> [p EXCEPT !.window = TRUE, !.renderer = FALSE],
          ledger |-> [led EXCEPT !.sdl = release(acquire(@)),
                                 !.window = acquire(@)]]
    ELSE [result |-> GOL_SUCCESS,
          ptrs |-> [p EXCEPT !.window = TRUE, !.renderer = TRUE],
          ledger |-> [led EXCEPT !.sdl = acquire(@), !.window = acquire(@),
                                 !.renderer = acquire(@)]]

\* initialize_sdl when the SDL call "fail" fails ("none": none does): the
\* result, the pointers of the context and the ledger. After a failed
\* SDL_CreateRenderer the window is destroyed and ctx->window keeps its value.
initialize_sdl(p, led, fail) ==
    IF fail = "SDL_Init"
    THEN [result |-> GOL_ERROR_SDL, ptrs |-> p, ledger |-> led]
    ELSE IF fail = "SDL_CreateWindow"
    THEN [result |-> GOL_ERROR_SDL, ptrs |-> [p EXCEPT !.window = FALSE],
          ledger |-> [led EXCEPT !.sdl = release(acquire(@))]]
    ELSE IF fail = "SDL_CreateRenderer"
    THEN [result |-> GOL_ERROR_SDL,
          ptrs |-> [p EXCEPT !.window = TRUE, !.renderer = FALSE],
          ledger |-> [led EXCEPT !.sdl = release(acquire(@)),
                                 !.window = release(acquire(@))]]
    ELSE [result |-> GOL_SUCCESS,
          ptrs |-> [p EXCEPT !.window = TRUE, !.renderer = TRUE],
          ledger |-> [led EXCEPT !.sdl = acquire(@), !.window = acquire(@),
                                 !.renderer = acquire(@)]]

\* cleanup_sdl: the pointers and the ledger it leaves.
cleanup_sdl(p, led) ==
    [ptrs |-> [p EXCEPT !.renderer = FALSE, !.window = FALSE],
     ledger |-> [led EXCEPT !.renderer = IF p.renderer THEN release(@) ELSE @,
                            !.window = IF p.window THEN release(@) ELSE @,
                            !.sdl = release(@)]]

(* ------------------------------- main --------------------------------- *)

\* Largest argc of a process followed.
MaxArgc == 3

\* Largest @nrows and @ncols value written to a configuration file, and
\* largest number of cells of the grid of a process followed.
MaxMainCells == 3

\* Largest @steps value written to a configuration file.
MaxMainSteps == 1

\* Largest @seed value written to a configuration file.
MaxMainSeed == 1

\* Largest number of pattern rows written to a configuration file.
MaxPatternRows == 2

\* if (argc != 2): the usage text and GOL_ERROR_ARGS; else on to
\* parse_config_file.
CheckArgs ==
    /\ pc = "main"
    /\ IF argc # 2
       THEN /\ errors' = Append(errors, GOL_ERROR_ARGS)
            /\ exit_code' = GOL_ERROR_ARGS
            /\ pc' = "exited"
       ELSE /\ pc' = "parse_config_file"
            /\ UNCHANGED <<errors, exit_code>>
    /\ UNCHANGED <<rows, cols, grid, pre, stepVars, permVars, loopVars, click, runs>>
    /\ UNCHANGED <<fileVars, origin, argc, given, faults, ptrs, ledger, result, entered>>

\* result = parse_config_file(argv[1], &ctx.config), main's return on an
\* error, and ctx.rows, ctx.cols set from the configuration.
ParseConfigFile ==
    /\ pc = "parse_config_file"
    /\ \E opened \in BOOLEAN :
          /\ faults' = [faults EXCEPT !.fopen = Append(@, opened)]
          /\ IF ~opened
             THEN /\ result' = GOL_ERROR_FILE
                  /\ UNCHANGED <<rows, cols, config>>
             ELSE LET out == parse_config_file(file)
                  IN  /\ result' = out.result
                      /\ config' = [steps |-> out.config.steps,
                                    seed |-> out.config.seed,
                                    config_type |-> type_name(out.config.config_type)]
                      /\ IF out.result = GOL_SUCCESS
                         THEN rows' = out.config.rows /\ cols' = out.config.cols
                         ELSE UNCHANGED <<rows, cols>>
    /\ IF result' # GOL_SUCCESS
       THEN /\ errors' = Append(errors, result')
            /\ exit_code' = result'
            /\ pc' = "exited"
       ELSE /\ pc' = "allocate_grid"
            /\ UNCHANGED <<errors, exit_code>>
    /\ UNCHANGED <<grid, pre, stepVars, permVars, click, runs, fileVars, origin>>
    /\ UNCHANGED <<running, generation, quit, since_quit, reset_seen, commits, last_reset>>
    /\ UNCHANGED <<argc, given, ptrs, ledger, entered>>

\* result = allocate_grid(&ctx) and main's return on an error.
AllocateGrid ==
    /\ pc = "allocate_grid"
    /\ \E fail \in -1 .. rows :
          LET out == allocate_grid(ctx, ledger, fail)
          IN  /\ faults' = [faults EXCEPT !.calloc = fail]
              /\ grid' = out.grid
              /\ ptrs' = [ptrs EXCEPT !.grid = out.ptr]
              /\ ledger' = out.ledger
              /\ result' = out.result
    /\ pre' = grid'
    /\ IF result' # GOL_SUCCESS
       THEN /\ errors' = Append(errors, result')
            /\ exit_code' = result'
            /\ pc' = "exited"
       ELSE /\ pc' = "initialize_grid"
            /\ UNCHANGED <<errors, exit_code>>
    /\ UNCHANGED <<rows, cols, stepVars, permVars, loopVars, click, runs, fileVars>>
    /\ UNCHANGED <<origin, argc, given, entered>>

\* The dispatch on the mode: initialize_grid_random, or initialize_grid_manual
\* (which sets every cell Dead, calls parse_manual_config and drops the value
\* it returns), or the error of an unknown mode with deallocate_grid.
InitializeGrid ==
    /\ pc = "initialize_grid"
    /\ IF config.config_type = "random"
       THEN /\ \E now \in 0 .. MaxTime :
                  grid' = initialize_grid_random(ctx, config, now)
            /\ pc' = "initialize_sdl"
            /\ UNCHANGED <<warned, faults, ptrs, ledger, errors, exit_code>>
       ELSE IF config.config_type = "manual"
       THEN /\ \E opened \in BOOLEAN :
                  /\ faults' = [faults EXCEPT !.fopen = Append(@, opened)]
                  /\ IF opened
                     THEN /\ grid' = initialize_grid_manual(ctx, file).grid
                          /\ warned' = initialize_grid_manual(ctx, file).warned
                          /\ UNCHANGED errors
                     ELSE /\ grid' = [p \in Positions(rows, cols) |-> CELL_DEAD]
                          /\ errors' = Append(errors, GOL_ERROR_FILE)
                          /\ UNCHANGED warned
            /\ pc' = "initialize_sdl"
            /\ UNCHANGED <<ptrs, ledger, exit_code>>
       ELSE /\ ptrs' = deallocate_grid(ctx, ptrs, ledger).ptrs
            /\ ledger' = deallocate_grid(ctx, ptrs, ledger).ledger
            /\ grid' = <<>>
            /\ errors' = Append(errors, GOL_ERROR_CONFIG)
            /\ exit_code' = GOL_ERROR_CONFIG
            /\ pc' = "exited"
            /\ UNCHANGED <<warned, faults>>
    /\ pre' = grid'
    /\ UNCHANGED <<rows, cols, stepVars, permVars, loopVars, click, runs, file>>
    /\ UNCHANGED <<origin, argc, given, result, entered>>

\* result = initialize_sdl(&ctx); on an error deallocate_grid and main's
\* return, else the call of run_simulation up to its while loop.
InitializeSdl ==
    /\ pc = "initialize_sdl"
    /\ \E fail \in SDL_CALLS \cup {"none"} :
          LET out == initialize_sdl(ptrs, ledger, fail)
              freed == deallocate_grid(ctx, out.ptrs, out.ledger)
          IN  /\ faults' = [faults EXCEPT !.sdl = fail]
              /\ result' = out.result
              /\ IF out.result # GOL_SUCCESS
                 THEN /\ ptrs' = freed.ptrs
                      /\ ledger' = freed.ledger
                      /\ grid' = <<>>
                      /\ errors' = Append(errors, out.result)
                      /\ exit_code' = out.result
                      /\ pc' = "exited"
                      /\ UNCHANGED <<running, generation, entered>>
                 ELSE /\ ptrs' = out.ptrs
                      /\ ledger' = out.ledger
                      /\ pc' = "poll"
                      /\ running' = TRUE
                      /\ generation' = 0
                      /\ entered' = TRUE
                      /\ UNCHANGED <<grid, errors, exit_code>>
    /\ pre' = grid'
    /\ UNCHANGED <<rows, cols, stepVars, permVars, click, runs, fileVars, origin>>
    /\ UNCHANGED <<config, quit, since_quit, reset_seen, commits, last_reset, argc, given>>

\* run_simulation returns GOL_SUCCESS; cleanup_sdl, deallocate_grid and
\* main's return.
Teardown ==
    /\ pc = "stopped"
    /\ result' = GOL_SUCCESS
    /\ LET closed == cleanup_sdl(ptrs, ledger)
           freed == deallocate_grid(ctx, closed.ptrs, closed.ledger)
       IN  /\ ptrs' = freed.ptrs
           /\ ledger' = freed.ledger
    /\ grid' = <<>>
    /\ pre' = <<>>
    /\ exit_code' = result'
    /\ pc' = "exited"
    /\ UNCHANGED <<rows, cols, stepVars, permVars, loopVars, click, runs, fileVars>>
    /\ UNCHANGED <<origin, argc, given, faults, errors, entered>>

\* The text of line "<key> <text>" of a configuration file.
Line(key, text) == key \o <<" ">> \o text \o NL

\* The decimal text of n, one digit.
NumText(n) == <<Digits[n + 1]>>

\* The line of a numeric key, none for a value left out (n < 0).
OptLine(key, n) == IF n < 0 THEN <<>> ELSE Line(key, NumText(n))

\* The word written after @config for a mode; "life" stands for any word
\* that is neither random nor manual.
ModeText(m) ==
    IF m = "random" THEN CONFIG_RANDOM
    ELSE IF m = "manual" THEN CONFIG_MANUAL
    ELSE <<"l", "i", "f", "e">>

RECURSIVE JoinLines(_)
JoinLines(rs) == IF rs = <<>> THEN <<>> ELSE Head(rs) \o NL \o JoinLines(Tail(rs))

\* The text of the configuration file that says g, in the order of the
\* usage text.
FileOf(g) ==
    OptLine(NROWS_KEY, g.nrows) \o OptLine(NCOLS_KEY, g.ncols)
        \o (IF g.mode = "" THEN <<>> ELSE Line(CONFIG_KEY, ModeText(g.mode)))
        \o OptLine(STEPS_KEY, g.steps) \o OptLine(SEED_KEY, g.seed)
        \o (IF g.section THEN GRID_KEY \o NL \o JoinLines(g.pattern) ELSE <<>>)

\* The pattern rows written: a row of two Alive cells, and a row whose first
\* marker is #.
RowTexts == {<<"1", "1">>, <<"#", "0">>}

\* What the configuration files explored say: each key present or left out
\* (-1, ""), dimensions from 0 up, a mode that is random, manual or neither,
\* a seed in random mode only and an @grid section in manual mode only.
MainGivens ==
    {g \in [nrows : -1 .. MaxMainCells, ncols : -1 .. MaxMainCells,
            mode : {"", "random", "manual", "other"},
            steps : {-1} \cup (1 .. MaxMainSteps),
            seed : {-1} \cup (1 .. MaxMainSeed),
            section : BOOLEAN,
            pattern : SeqUpTo(RowTexts, MaxPatternRows)] :
        /\ (g.nrows > 0 /\ g.ncols > 0) => g.nrows * g.ncols <= MaxMainCells
        /\ g.mode # "random" => g.seed = -1
        /\ g.mode # "manual" => ~g.section
        /\ ~g.section => g.pattern = <<>>}

\* The entry of main: ctx = {0}, nothing acquired.
InitMain ==
    /\ argc \in 1 .. MaxArgc
    /\ given \in MainGivens
    /\ file = FileOf(given)
    /\ rows = 0
    /\ cols = 0
    /\ grid = <<>>
    /\ pre = <<>>
    /\ pc = "main"
    /\ mi = 0
    /\ mj = 0
    /\ reads = NoReads
    /\ visited = {}
    /\ permuted = FALSE
    /\ config = [steps |-> 0, seed |-> 0, config_type |-> ""]
    /\ running = FALSE
    /\ generation = 0
    /\ quit = NoQuit
    /\ since_quit = {}
    /\ reset_seen = FALSE
    /\ commits = 0
    /\ last_reset = NoReset
    /\ click = NoClick
    /\ runs = <<>>
    /\ warned = FALSE
    /\ origin = <<>>
    /\ faults = NoFaults
    /\ ptrs = NoPtrs
    /\ ledger = NoLedger
    /\ result = 0
    /\ exit_code = NotExited
    /\ errors = <<>>
    /\ entered = FALSE

NextMain ==
    \/ CheckArgs
    \/ ParseConfigFile
    \/ AllocateGrid
    \/ InitializeGrid
    \/ InitializeSdl
    \/ PollQuit
    \/ PollMouseButton
    \/ PollKeyDown
    \/ Render
    \/ MarkCell
    \/ Commit
    \/ Advance
    \/ Teardown

SpecMain == InitMain /\ [][NextMain]_vars

Released(e) == e.acq = 1 /\ e.rel = 1

\* C16: if grid allocation fails at row i, for any i in 0..rows-1, then
\* allocate_grid has released every one of the rows 0..i-1 and the
\* row-pointer array exactly once, leaves the grid pointer null and returns
\* the memory error; if it succeeds, all rows*cols cells are Dead.
C16_AllocationFailureReleases ==
    /\ faults.calloc >= 1 =>
          /\ Len(ledger.row) = faults.calloc - 1
          /\ \A j \in 1 .. Len(ledger.row) : Released(ledger.row[j])
          /\ Released(ledger.array)
          /\ ~ptrs.grid
          /\ result = 5
    /\ pc = "initialize_grid" =>
          /\ faults.calloc = -1
          /\ ptrs.grid
          /\ DOMAIN grid = Positions(rows, cols)
          /\ \A p \in Positions(rows, cols) : grid[p] = CELL_DEAD

\* C16 witness: allocation failed at the last of three rows.
C16_Witness ==
    /\ rows = 3
    /\ faults.calloc = 3
    /\ pc = "exited"

\* The first fopen, that of parse_config_file, succeeded.
Opened == argc = 2 /\ faults.fopen # <<>> /\ faults.fopen[1]

MissingKey == given.nrows < 0 \/ given.ncols < 0 \/ given.mode = ""

ZeroDimension == given.nrows = 0 \/ given.ncols = 0

UnknownMode == given.mode = "other"

\* C17: the exit code of the process is 1 when the argument count is not
\* exactly one (argc is not 2), 2 when the configuration file cannot be opened,
\* 3 when a required key is missing, a dimension is zero or the mode is neither
\* random nor manual, 5 when grid allocation fails, 4 when window or renderer
\* creation fails, and 0 when the simulation loop reaches Stopped; no other
\* code is returned. Each case is the failure that ends the process: the
\* mode is looked at after the grid is allocated.
C17_ExitCodes ==
    pc = "exited" =>
        /\ exit_code \in 0 .. 5
        /\ exit_code = 1 <=> argc # 2
        /\ exit_code = 2 <=> (argc = 2 /\ ~Opened)
        /\ exit_code = 3 <=>
              /\ Opened
              /\ MissingKey \/ ZeroDimension \/ (UnknownMode /\ faults.calloc = -1)
        /\ exit_code = 5 <=> faults.calloc >= 0
        /\ exit_code = 4 <=> faults.sdl # "none"
        /\ exit_code = 0 <=> entered

\* C17 witness: the process has exited on a mode that is neither random nor
\* manual, the grid allocated before.
C17_Witness ==
    /\ pc = "exited"
    /\ UnknownMode
    /\ ledger.array.acq = 1
    /\ exit_code = 3

\* The ledger entries of all the resources.
Resources ==
    {ledger.array, ledger.sdl, ledger.window, ledger.renderer}
        \cup {ledger.row[j] : j \in 1 .. Len(ledger.row)}

\* C18: on every path by which the process exits after acquiring any
\* resource (normal Stopped, unrecognized mode, SDL init failure, window
\* creation failure, renderer creation failure), every resource acquired so
\* far (grid rows, row-pointer array, SDL subsystem, window, renderer) has
\* been released exactly once at exit: none leaked, none released twice. And
\* at no moment was a resource released more often than acquired.
C18_ReleasedExactlyOnce ==
    /\ \A e \in Resources : e.rel <= e.acq /\ e.acq <= 1
    /\ pc = "exited" => \A e \in Resources : e.rel = e.acq

\* C18 witness: the process has exited on a failed renderer creation, with a
\* grid of two rows, the SDL subsystem and the window acquired before.
C18_Witness ==
    /\ pc = "exited"
    /\ faults.sdl = "SDL_CreateRenderer"
    /\ ledger.window.acq = 1
    /\ ledger.sdl.acq = 1
    /\ Len(ledger.row) = 2

\* The pattern rows the configuration file supplies.
SuppliedRows == Len(given.pattern)

\* Manual initialization has run on a file it could open.
ManuallyInitialized ==
    /\ config.config_type = "manual"
    /\ Len(faults.fopen) = 2
    /\ faults.fopen[2]

\* C15: when manual initialization is supplied k pattern rows for any k with
\* 0 <= k < rows, every cell of rows k..rows-1 is Dead after initialization, a
\* warning is emitted, no error is reported, and the simulation loop still
\* starts (main goes on to initialize_sdl, and into run_simulation when that
\* succeeds).
C15_ShortPatternWarns ==
    (ManuallyInitialized /\ SuppliedRows < rows) =>
        /\ pc = "initialize_sdl" =>
              \A p \in Positions(rows, cols) : p[1] >= SuppliedRows => grid[p] = CELL_DEAD
        /\ warned
        /\ errors = <<>> \/ errors = <<GOL_ERROR_SDL>>
        /\ (pc = "exited" /\ faults.sdl = "none") => entered

\* C20: every error detected during setup is fatal at the point detected: if
\* any setup operation (argument check, any open of the configuration file
\* including the one made to load the manual pattern, configuration
\* validation, grid allocation, mode dispatch, window or renderer creation)
\* reports an error, the simulation loop is never entered and the process
\* exits with that error's code.
C20_SetupErrorsFatal ==
    errors # <<>> =>
        /\ pc = "exited"
        /\ ~entered
        /\ exit_code = errors[1]

====
